---- MODULE Spec2Model ----
(***************************************************************************)
(* Payroll-App: the payroll calculators, the in-memory payroll system and  *)
(* the SQLite year-to-date ledger.                                         *)
(*                                                                         *)
(*   src/enhanced_payroll.py  PayrollCalculator, PayrollSystem             *)
(*   src/payroll_system.py    EnhancedPayrollCalculator, DatabaseManager   *)
(*                                                                         *)
(* Money is counted in cents.  A value the code has not rounded yet is an  *)
(* exact amount [w, n] = w + n / FracDen cents (0 <= n < FracDen): Python  *)
(* floats are read as the exact decimals they stand for.  Hours are        *)
(* counted in half hours, rates in hundredths of a percent or less as the  *)
(* source writes them.                                                     *)
(***************************************************************************)
EXTENDS Integers, Sequences, FiniteSets, TLC

VARIABLES
    employees,      \* PayrollSystem.employees: the ids added so far
    ytd_earnings,   \* PayrollSystem.ytd_earnings: id -> cents (NoYtd: no key)
    last,           \* what the latest PayrollSystem call returned or raised
    prev,           \* what the call before it returned or raised
    ncalls,         \* number of PayrollSystem calls made
    ytd_table,      \* DatabaseManager: the ytd_earnings table, one row per employee_id
    db_last,        \* the latest DatabaseManager call and the table before it
    committed,      \* the (employee_id, year) keys update_ytd_earnings has committed
    ndb,            \* number of DatabaseManager calls made
    calc_in,        \* arguments handed to a calculator function
    calc_out,       \* what the calculator function returned
    th,             \* the two concurrent callers of process_payroll
    commits,        \* the callers in the order they committed
    charged         \* per worker, the wages the capped tax and the surtax were charged
                    \* on in the pay periods since the YTD was last 0

vars == <<employees, ytd_earnings, last, prev, ncalls, ytd_table, db_last, committed, ndb,
          calc_in, calc_out, th, commits, charged>>

-----------------------------------------------------------------------------
(* Bounds of the model *)

MaxCalls == 4
MaxDbCalls == 3

-----------------------------------------------------------------------------
(* Program constants *)

SOCIAL_SECURITY_WAGE_BASE == 168600
ADDITIONAL_MEDICARE_THRESHOLD == 200000
\* rates as fractions: 0.062 = 62/1000, 0.0145 = 145/10000, 0.009 = 9/1000
SOCIAL_SECURITY_RATE == [num |-> 62, den |-> 1000]
MEDICARE_RATE == [num |-> 145, den |-> 10000]
ADDITIONAL_MEDICARE_RATE == [num |-> 9, den |-> 1000]
\* the allowance value of calculate_federal_withholding, in dollars
ALLOWANCE_VALUE == 4700
\* the periods per year PayrollCalculator assumes (bi-weekly)
BIWEEKLY_PERIODS == 26

Cents(dollars) == dollars * 100

-----------------------------------------------------------------------------
(* Exact amounts: w + n / FracDen cents *)

FracDen == 64 * 3 * 625 * 13

Max(a, b) == IF a >= b THEN a ELSE b
Min(a, b) == IF a <= b THEN a ELSE b

QNorm(w, n) == [w |-> w + (n \div FracDen), n |-> n % FracDen]
QInt(c) == [w |-> c, n |-> 0]
QZero == QInt(0)
\* p / q for integers p and q > 0, q a divisor of FracDen
QRat(p, q) == [w |-> p \div q, n |-> (p % q) * (FracDen \div q)]
QAdd(a, b) == QNorm(a.w + b.w, a.n + b.n)
QSub(a, b) == QNorm(a.w - b.w - 1, a.n + FracDen - b.n)
QLe(a, b) == a.w < b.w \/ (a.w = b.w /\ a.n <= b.n)
QLt(a, b) == a.w < b.w \/ (a.w = b.w /\ a.n < b.n)
QMin(a, b) == IF QLe(a, b) THEN a ELSE b
QMax(a, b) == IF QLe(a, b) THEN b ELSE a
\* a * k for a natural number k
QTimes(a, k) == QNorm(a.w * k, a.n * k)
\* a * num / den for a >= 0, without leaving 32 bits
QScale(a, num, den) ==
    QNorm((a.w \div den) * num + (((a.w % den) * num) \div den),
          (((a.w % den) * num) % den) * (FracDen \div den) + ((a.n * num) \div den))
\* a / k for a >= 0
QOver(a, k) ==
    [w |-> a.w \div k, n |-> ((a.w % k) * FracDen + a.n) \div k]

\* Python's round(x, 2): to the nearest cent, a tie to the even cent
round2(a) ==
    IF 2 * a.n < FracDen THEN a.w
    ELSE IF 2 * a.n > FracDen THEN a.w + 1
    ELSE IF a.w % 2 = 0 THEN a.w ELSE a.w + 1

\* Decimal.quantize(0.01, ROUND_HALF_UP): to the nearest cent, a tie away from zero
_round_currency(a) ==
    IF 2 * a.n < FracDen THEN a.w
    ELSE IF 2 * a.n > FracDen THEN a.w + 1
    ELSE IF a.w >= 0 THEN a.w + 1 ELSE a.w

-----------------------------------------------------------------------------
(* Enums and tables (payroll_system.py; enhanced_payroll.py holds the two  *)
(* first bracket tables and the same standard deductions)                  *)

FilingStatus == {"SINGLE", "MARRIED_JOINTLY", "MARRIED_SEPARATELY", "HEAD_OF_HOUSEHOLD"}

\* PayFrequency: periods_per_year
PayFrequency == [WEEKLY |-> 52, BI_WEEKLY |-> 26, SEMI_MONTHLY |-> 24, MONTHLY |-> 12]

\* State: max_rate in thousandths, standard_deduction in dollars
State ==
    [TEXAS      |-> [code |-> "TX", max_rate |-> 0,   standard_deduction |-> 0],
     CALIFORNIA |-> [code |-> "CA", max_rate |-> 100, standard_deduction |-> 5202],
     FLORIDA    |-> [code |-> "FL", max_rate |-> 0,   standard_deduction |-> 0],
     NEW_YORK   |-> [code |-> "NY", max_rate |-> 85,  standard_deduction |-> 8000],
     COLORADO   |-> [code |-> "CO", max_rate |-> 45,  standard_deduction |-> 0]]

\* a bracket: limit in dollars (inf: float('inf')), rate in percent
Br(limit, rate) == [limit |-> limit, rate |-> rate, inf |-> FALSE]
BrInf(rate) == [limit |-> 0, rate |-> rate, inf |-> TRUE]

FEDERAL_TAX_BRACKETS ==
    [SINGLE |->
        <<Br(11600, 10), Br(47150, 12), Br(100525, 22), Br(191950, 24),
          Br(243725, 32), Br(609350, 35), BrInf(37)>>,
     MARRIED_JOINTLY |->
        <<Br(23200, 10), Br(94300, 12), Br(201050, 22), Br(383900, 24),
          Br(487450, 32), Br(731200, 35), BrInf(37)>>,
     MARRIED_SEPARATELY |->
        <<Br(11600, 10), Br(47150, 12), Br(100525, 22), Br(191950, 24),
          Br(243725, 32), Br(365600, 35), BrInf(37)>>,
     HEAD_OF_HOUSEHOLD |->
        <<Br(16550, 10), Br(63100, 12), Br(100500, 22), Br(191950, 24),
          Br(243700, 32), Br(609350, 35), BrInf(37)>>]

STANDARD_DEDUCTIONS ==
    [SINGLE |-> 14600, MARRIED_JOINTLY |-> 29200,
     MARRIED_SEPARATELY |-> 14600, HEAD_OF_HOUSEHOLD |-> 21900]

\* enhanced_payroll.py: FEDERAL_TAX_BRACKETS has these two keys only
PayrollCalculator_bracket_keys == {"SINGLE", "MARRIED_JOINTLY"}

RECURSIVE SumSeq(_)
SumSeq(s) == IF s = <<>> THEN 0 ELSE Head(s) + SumSeq(Tail(s))

\* PreTaxDeductions.total() / PostTaxDeductions.total(): the sum of the fields
total(deductions) == SumSeq(deductions)

-----------------------------------------------------------------------------
(* EnhancedPayrollCalculator (payroll_system.py) *)

\* a slip of the loop: previous_limit never moved on from 0
RECURSIVE bracket_loop_keeping_previous_limit(_, _, _, _, _)
bracket_loop_keeping_previous_limit(brackets, i, tax, income_remaining, previous_limit) ==
    IF i > Len(brackets) THEN [tax |-> tax, visited |-> Len(brackets)]
    ELSE LET taxable_in_bracket ==
                 IF brackets[i].inf THEN income_remaining
                 ELSE QMin(income_remaining, QInt(Cents(brackets[i].limit)))
             tax2 == QAdd(tax, QScale(taxable_in_bracket, brackets[i].rate, 100))
             remaining2 == QSub(income_remaining, taxable_in_bracket)
         IN  IF QLe(remaining2, QZero) THEN [tax |-> tax2, visited |-> i]
             ELSE bracket_loop_keeping_previous_limit(brackets, i + 1, tax2, remaining2, 0)

\* a slip of the loop: tax = instead of tax +=
RECURSIVE bracket_loop_overwriting_tax(_, _, _, _, _)
bracket_loop_overwriting_tax(brackets, i, tax, income_remaining, previous_limit) ==
    IF i > Len(brackets) THEN [tax |-> tax, visited |-> Len(brackets)]
    ELSE LET taxable_in_bracket ==
                 IF brackets[i].inf THEN income_remaining
                 ELSE QMin(income_remaining,
                           QInt(Cents(brackets[i].limit - previous_limit)))
             tax2 == QScale(taxable_in_bracket, brackets[i].rate, 100)
             remaining2 == QSub(income_remaining, taxable_in_bracket)
         IN  IF QLe(remaining2, QZero) THEN [tax |-> tax2, visited |-> i]
             ELSE bracket_loop_overwriting_tax(brackets, i + 1, tax2, remaining2,
                                               brackets[i].limit)

\* the for loop of _calculate_tax_from_brackets from bracket i on: the tax and the
\* number of the last bracket the loop visited
RECURSIVE bracket_loop(_, _, _, _, _)
bracket_loop(brackets, i, tax, income_remaining, previous_limit) ==
    IF i > Len(brackets) THEN [tax |-> tax, visited |-> Len(brackets)]
    ELSE LET limit == brackets[i].limit
             rate == brackets[i].rate
             taxable_in_bracket ==
                 IF brackets[i].inf THEN income_remaining
                 ELSE QMin(income_remaining, QInt(Cents(limit - previous_limit)))
             tax2 == QAdd(tax, QScale(taxable_in_bracket, rate, 100))
             remaining2 == QSub(income_remaining, taxable_in_bracket)
         IN  IF QLe(remaining2, QZero) THEN [tax |-> tax2, visited |-> i]
             ELSE bracket_loop(brackets, i + 1, tax2, remaining2, limit)

\* income: an exact amount; the result: the exact annual tax
_calculate_tax_from_brackets(income, brackets) ==
    bracket_loop(brackets, 1, QZero, income, 0).tax

\* a slip of calculate_federal_withholding: bi-weekly pay assumed for every worker
calculate_federal_withholding_biweekly(taxable_income, filing_status, allowances, periods_per_year, additional_withholding, is_exempt) ==
    IF is_exempt THEN 0
    ELSE LET annual_taxable == taxable_income * BIWEEKLY_PERIODS
             annual_taxable_after_deduction ==
                 Max(0, annual_taxable - Cents(STANDARD_DEDUCTIONS[filing_status]))
             annual_taxable_final ==
                 Max(0, annual_taxable_after_deduction - allowances * Cents(ALLOWANCE_VALUE))
             annual_tax == _calculate_tax_from_brackets(QInt(annual_taxable_final),
                                                        FEDERAL_TAX_BRACKETS[filing_status])
         IN  _round_currency(QAdd(QOver(annual_tax, BIWEEKLY_PERIODS),
                                  QInt(additional_withholding)))

\* taxable_income, additional_withholding in cents; the result in cents
calculate_federal_withholding(taxable_income, filing_status, allowances, periods_per_year, additional_withholding, is_exempt) ==
    IF is_exempt THEN 0
    ELSE LET annual_taxable == taxable_income * periods_per_year
             standard_deduction == Cents(STANDARD_DEDUCTIONS[filing_status])
             annual_taxable_after_deduction == Max(0, annual_taxable - standard_deduction)
             allowance_amount == allowances * Cents(ALLOWANCE_VALUE)
             annual_taxable_final == Max(0, annual_taxable_after_deduction - allowance_amount)
             annual_tax == _calculate_tax_from_brackets(QInt(annual_taxable_final),
                                                        FEDERAL_TAX_BRACKETS[filing_status])
             per_paycheck_tax == QOver(annual_tax, periods_per_year)
         IN  _round_currency(QAdd(per_paycheck_tax, QInt(additional_withholding)))

\* the rate of calculate_state_tax, in thousandths
state_rate(state, state_taxable) ==
    IF state = "CALIFORNIA"
    THEN IF state_taxable <= Cents(20000) THEN 10
         ELSE IF state_taxable <= Cents(50000) THEN 20
         ELSE IF state_taxable <= Cents(100000) THEN 40
         ELSE State[state].max_rate
    ELSE State[state].max_rate

calculate_state_tax(taxable_income, state, filing_status, periods_per_year, is_exempt) ==
    IF is_exempt \/ State[state].max_rate = 0 THEN 0
    ELSE LET annual_income == taxable_income * periods_per_year
             state_taxable == Max(0, annual_income - Cents(State[state].standard_deduction))
             rate == state_rate(state, state_taxable)
             annual_state_tax == QScale(QInt(state_taxable), rate, 1000)
         IN  _round_currency(QOver(annual_state_tax, periods_per_year))

\* a slip of line 508: the floor max(0, ...) left out
ss_taxable_earnings_without_floor(gross_pay, ytd) ==
    Min(gross_pay, Cents(SOCIAL_SECURITY_WAGE_BASE) - ytd)

\* a slip of line 508: the prior year-to-date total left out of the cap
ss_taxable_earnings_without_ytd(gross_pay, ytd) ==
    Min(gross_pay, Max(0, Cents(SOCIAL_SECURITY_WAGE_BASE)))

\* line 508: the wages of the period the Social Security tax is charged on
ss_taxable_earnings(gross_pay, ytd) ==
    Min(gross_pay, Max(0, Cents(SOCIAL_SECURITY_WAGE_BASE) - ytd))

\* a slip of line 517: the whole period taxed once the threshold is crossed
excess_wages_whole_period(gross_pay, ytd) == gross_pay

\* line 517: the wages of the period the Additional Medicare tax is charged on
excess_wages(gross_pay, ytd) ==
    Min(gross_pay, (ytd + gross_pay) - Cents(ADDITIONAL_MEDICARE_THRESHOLD))

\* a slip of calculate_fica_taxes: nothing charged
calculate_fica_taxes_charging_nothing(gross_pay, ytd) == <<0, 0, 0>>

\* gross_pay, ytd (the ytd_earnings argument) in cents;
\* <<ss_tax, medicare_tax, additional_medicare_tax>>
calculate_fica_taxes(gross_pay, ytd) ==
    LET ss_tax == _round_currency(QScale(QInt(ss_taxable_earnings(gross_pay, ytd)),
                      SOCIAL_SECURITY_RATE.num, SOCIAL_SECURITY_RATE.den))
        medicare_tax == _round_currency(QScale(QInt(gross_pay),
                      MEDICARE_RATE.num, MEDICARE_RATE.den))
        additional_medicare_tax ==
            IF ytd + gross_pay > Cents(ADDITIONAL_MEDICARE_THRESHOLD)
            THEN _round_currency(QScale(QInt(excess_wages(gross_pay, ytd)),
                      ADDITIONAL_MEDICARE_RATE.num, ADDITIONAL_MEDICARE_RATE.den))
            ELSE 0
    IN  <<ss_tax, medicare_tax, additional_medicare_tax>>

\* a slip of calculate_gross_pay: overtime paid at the plain rate
calculate_gross_pay_plain_overtime(employee, hours_worked, overtime_hours) ==
    IF employee.is_salaried
    THEN _round_currency(QRat(employee.salary, PayFrequency[employee.pay_frequency]))
    ELSE _round_currency(QAdd(QRat(hours_worked * employee.pay_rate, 2),
                              QRat(overtime_hours * employee.pay_rate, 2)))

\* hours_worked, overtime_hours in half hours; pay_rate, salary in cents
calculate_gross_pay(employee, hours_worked, overtime_hours) ==
    IF employee.is_salaried
    THEN _round_currency(QRat(employee.salary, PayFrequency[employee.pay_frequency]))
    ELSE LET regular_pay == QRat(hours_worked * employee.pay_rate, 2)
             overtime_pay == QRat(overtime_hours * employee.pay_rate * 3, 4)
         IN  _round_currency(QAdd(regular_pay, overtime_pay))

Raised(error) == [ok |-> FALSE, error |-> error]

\* a slip of process_w2_payroll: the contribution taxes charged on the taxable income
fica_wages_taxable_income(gross_pay, taxable_income) == taxable_income

\* the wages process_w2_payroll hands to calculate_fica_taxes: gross_pay
fica_wages(gross_pay, taxable_income) == gross_pay

\* ytd_gross_earnings: ytd_data['gross_earnings'] (0 when ytd_data is None)
process_w2_payroll(employee, hours_worked, overtime_hours, ytd_gross_earnings) ==
    IF hours_worked < 0 \/ overtime_hours < 0 THEN Raised("PayrollError")
    ELSE LET gross_pay == calculate_gross_pay(employee, hours_worked, overtime_hours)
             pre_tax_total == _round_currency(QInt(total(employee.pre_tax_deductions)))
             taxable_income == Max(0, gross_pay - pre_tax_total)
             federal_tax == calculate_federal_withholding(
                 taxable_income, employee.filing_status, employee.allowances,
                 PayFrequency[employee.pay_frequency], employee.additional_withholding,
                 employee.is_exempt_from_federal)
             fica == calculate_fica_taxes(fica_wages(gross_pay, taxable_income),
                                          ytd_gross_earnings)
             state_tax == calculate_state_tax(
                 taxable_income, employee.state, employee.filing_status,
                 PayFrequency[employee.pay_frequency], employee.is_exempt_from_state)
             post_tax_total == _round_currency(QInt(total(employee.post_tax_deductions)))
             total_tax_deductions == federal_tax + fica[1] + fica[2] + fica[3] + state_tax
             total_deductions == pre_tax_total + total_tax_deductions + post_tax_total
             net_pay == _round_currency(QInt(gross_pay - total_deductions))
         IN  [ok |-> TRUE,
              employee_id |-> employee.id,
              hours_worked |-> hours_worked,
              overtime_hours |-> overtime_hours,
              gross_pay |-> gross_pay,
              pre_tax_deductions |-> pre_tax_total,
              taxable_income |-> taxable_income,
              federal_tax |-> federal_tax,
              social_security_tax |-> fica[1],
              medicare_tax |-> fica[2],
              additional_medicare_tax |-> fica[3],
              state_tax |-> state_tax,
              post_tax_deductions |-> post_tax_total,
              total_deductions |-> total_deductions,
              net_pay |-> net_pay,
              ytd_gross |-> ytd_gross_earnings + gross_pay]

-----------------------------------------------------------------------------
(* PayrollCalculator (enhanced_payroll.py): nothing is rounded before the  *)
(* PaystubResult is built                                                  *)

\* taxable_income: an exact amount; the result: the exact withholding
PayrollCalculator_calculate_federal_withholding(taxable_income, filing_status, allowances) ==
    LET annual_taxable == QTimes(taxable_income, BIWEEKLY_PERIODS)
        standard_deduction == QInt(Cents(STANDARD_DEDUCTIONS[filing_status]))
        annual_taxable_after_deduction ==
            QMax(QZero, QSub(annual_taxable, standard_deduction))
        allowance_amount == QInt(allowances * Cents(ALLOWANCE_VALUE))
        annual_taxable_final ==
            QMax(QZero, QSub(annual_taxable_after_deduction, allowance_amount))
        annual_tax == _calculate_tax_from_brackets(annual_taxable_final,
                                                   FEDERAL_TAX_BRACKETS[filing_status])
    IN  QOver(annual_tax, BIWEEKLY_PERIODS)

\* a slip of line 193: the wage base applied to each period by itself
PayrollCalculator_ss_taxable_earnings_per_period(gross_pay, ytd) ==
    QMin(gross_pay, QInt(Max(0, Cents(SOCIAL_SECURITY_WAGE_BASE))))

\* line 193: the wages of the period the Social Security tax is charged on
PayrollCalculator_ss_taxable_earnings(gross_pay, ytd) ==
    QMin(gross_pay, QInt(Max(0, Cents(SOCIAL_SECURITY_WAGE_BASE) - ytd)))

\* a slip of line 202: the whole period charged once the threshold is crossed
PayrollCalculator_excess_wages_whole_period(gross_pay, ytd) == gross_pay

\* line 202: the wages of the period the Additional Medicare tax is charged on,
\* once ytd + gross_pay is above the threshold
PayrollCalculator_excess_wages(gross_pay, ytd) ==
    QMin(gross_pay, QSub(QAdd(QInt(ytd), gross_pay),
                         QInt(Cents(ADDITIONAL_MEDICARE_THRESHOLD))))

\* line 201: ytd_earnings + gross_pay > self.additional_medicare_threshold
PayrollCalculator_above_threshold(gross_pay, ytd) ==
    QLt(QInt(Cents(ADDITIONAL_MEDICARE_THRESHOLD)), QAdd(QInt(ytd), gross_pay))

\* gross_pay: an exact amount; ytd in cents; three exact amounts
PayrollCalculator_calculate_fica_taxes(gross_pay, ytd) ==
    LET ss_tax == QScale(PayrollCalculator_ss_taxable_earnings(gross_pay, ytd),
                         SOCIAL_SECURITY_RATE.num, SOCIAL_SECURITY_RATE.den)
        medicare_tax == QScale(gross_pay, MEDICARE_RATE.num, MEDICARE_RATE.den)
        additional_medicare_tax ==
            IF PayrollCalculator_above_threshold(gross_pay, ytd)
            THEN QScale(PayrollCalculator_excess_wages(gross_pay, ytd),
                        ADDITIONAL_MEDICARE_RATE.num, ADDITIONAL_MEDICARE_RATE.den)
            ELSE QZero
    IN  <<ss_tax, medicare_tax, additional_medicare_tax>>

\* state_rate in thousandths
PayrollCalculator_calculate_state_tax(taxable_income, state_rate_) ==
    QScale(taxable_income, state_rate_, 1000)

\* hours_worked in half hours, ytd in cents; a PaystubResult in cents, or the error raised
PayrollCalculator_process_w2_payroll(employee, hours_worked, ytd) ==
    IF hours_worked < 0 THEN Raised("PayrollError")
    ELSE IF employee.filing_status \notin PayrollCalculator_bracket_keys
    THEN Raised("KeyError")
    ELSE LET gross_pay == QRat(hours_worked * employee.pay_rate, 2)
             pre_tax_total == QInt(total(employee.pre_tax_deductions))
             taxable_income == QMax(QZero, QSub(gross_pay, pre_tax_total))
             federal_tax == PayrollCalculator_calculate_federal_withholding(
                 taxable_income, employee.filing_status, employee.allowances)
             fica == PayrollCalculator_calculate_fica_taxes(gross_pay, ytd)
             state_tax == PayrollCalculator_calculate_state_tax(
                 taxable_income, employee.state_tax_rate)
             total_tax_deductions ==
                 QAdd(QAdd(QAdd(QAdd(federal_tax, fica[1]), fica[2]), fica[3]), state_tax)
             total_deductions == QAdd(pre_tax_total, total_tax_deductions)
             net_pay == QSub(gross_pay, total_deductions)
         IN  [ok |-> TRUE,
              employee_type |-> "W-2 Employee",
              hours_worked |-> hours_worked,
              gross_pay |-> round2(gross_pay),
              pre_tax_deductions |-> round2(pre_tax_total),
              taxable_income |-> round2(taxable_income),
              federal_tax |-> round2(federal_tax),
              social_security_tax |-> round2(fica[1]),
              medicare_tax |-> round2(fica[2]),
              additional_medicare_tax |-> round2(fica[3]),
              state_tax |-> round2(state_tax),
              total_deductions |-> round2(total_deductions),
              net_pay |-> round2(net_pay)]

\* a slip of process_1099_payroll: the Medicare tax withheld from a contractor
process_1099_payroll_withholding_medicare(contractor, hours_worked) ==
    IF hours_worked < 0 THEN Raised("PayrollError")
    ELSE LET gross_pay == QRat(hours_worked * contractor.pay_rate, 2)
             medicare_tax == QScale(gross_pay, MEDICARE_RATE.num, MEDICARE_RATE.den)
         IN  [ok |-> TRUE,
              employee_type |-> "1099 Contractor",
              hours_worked |-> hours_worked,
              gross_pay |-> round2(gross_pay),
              pre_tax_deductions |-> 0,
              taxable_income |-> 0,
              federal_tax |-> 0,
              social_security_tax |-> 0,
              medicare_tax |-> round2(medicare_tax),
              additional_medicare_tax |-> 0,
              state_tax |-> 0,
              total_deductions |-> round2(medicare_tax),
              net_pay |-> round2(QSub(gross_pay, medicare_tax))]

PayrollCalculator_process_1099_payroll(contractor, hours_worked) ==
    IF hours_worked < 0 THEN Raised("PayrollError")
    ELSE LET gross_pay == QRat(hours_worked * contractor.pay_rate, 2)
         IN  [ok |-> TRUE,
              employee_type |-> "1099 Contractor",
              hours_worked |-> hours_worked,
              gross_pay |-> round2(gross_pay),
              pre_tax_deductions |-> 0,
              taxable_income |-> 0,
              federal_tax |-> 0,
              social_security_tax |-> 0,
              medicare_tax |-> 0,
              additional_medicare_tax |-> 0,
              state_tax |-> 0,
              total_deductions |-> 0,
              net_pay |-> round2(gross_pay)]

-----------------------------------------------------------------------------
(* W2Employee objects of payroll_system.py.  pay_rate in cents an hour,    *)
(* salary and additional_withholding in cents, the deduction fields in     *)
(* cents (the elected ones, in field order).                               *)

W2Employee(id, pay_rate, salary, is_salaried, pay_frequency, filing_status, allowances, additional_withholding, state, pre_tax, post_tax, exempt) ==
    [id |-> id, pay_rate |-> pay_rate, salary |-> salary, is_salaried |-> is_salaried,
     pay_frequency |-> pay_frequency, filing_status |-> filing_status,
     allowances |-> allowances, additional_withholding |-> additional_withholding,
     state |-> state, pre_tax_deductions |-> pre_tax, post_tax_deductions |-> post_tax,
     is_exempt_from_federal |-> exempt[1], is_exempt_from_state |-> exempt[2]]

W2Staff ==
    {W2Employee("w_tess", 2501, 0, FALSE, "WEEKLY", "SINGLE", 0, 1000, "CALIFORNIA",
                <<>>, <<>>, <<FALSE, FALSE>>),
     W2Employee("w_sal", 0, 12000000, TRUE, "SEMI_MONTHLY", "HEAD_OF_HOUSEHOLD", 2, 0,
                "NEW_YORK", <<15000, 50000>>, <<2500>>, <<FALSE, FALSE>>),
     W2Employee("w_big", 210750, 0, FALSE, "BI_WEEKLY", "MARRIED_JOINTLY", 2, 0,
                "CALIFORNIA", <<30000, 100000>>, <<>>, <<FALSE, FALSE>>),
     W2Employee("w_co", 3000, 0, FALSE, "MONTHLY", "MARRIED_SEPARATELY", 0, 0,
                "COLORADO", <<200000>>, <<>>, <<FALSE, FALSE>>),
     W2Employee("w_ex", 3500, 0, FALSE, "BI_WEEKLY", "SINGLE", 1, 500, "TEXAS",
                <<>>, <<1234>>, <<TRUE, TRUE>>),
     W2Employee("w_penny", 2, 0, FALSE, "BI_WEEKLY", "SINGLE", 0, 0, "TEXAS",
                <<>>, <<>>, <<FALSE, FALSE>>)}

W2Of(id) == CHOOSE e \in W2Staff : e.id = id

-----------------------------------------------------------------------------
(* The employee objects handed to PayrollSystem (enhanced_payroll.py).     *)
(* pay_rate in cents an hour, state_tax_rate in thousandths, the four      *)
(* PreTaxDeductions fields in cents.                                       *)

PC_W2Employee(id, pay_rate, filing_status, allowances, state_tax_rate, pre_tax) ==
    [id |-> id, kind |-> "W2Employee", pay_rate |-> pay_rate,
     filing_status |-> filing_status, allowances |-> allowances,
     state_tax_rate |-> state_tax_rate, pre_tax_deductions |-> pre_tax]

PC_Contractor(id, pay_rate) ==
    [id |-> id, kind |-> "Contractor", pay_rate |-> pay_rate,
     filing_status |-> "SINGLE", allowances |-> 0,
     state_tax_rate |-> 0, pre_tax_deductions |-> <<0, 0, 0, 0>>]

\* an object of the base class: neither a W2Employee nor a Contractor
PC_Employee(id) ==
    [id |-> id, kind |-> "Employee", pay_rate |-> 0,
     filing_status |-> "SINGLE", allowances |-> 0,
     state_tax_rate |-> 0, pre_tax_deductions |-> <<0, 0, 0, 0>>]

Staff ==
    {PC_W2Employee("sarah", 210750, "MARRIED_JOINTLY", 2, 80, <<30000, 0, 100000, 0>>),
     PC_W2Employee("tess", 2500, "SINGLE", 0, 60, <<0, 0, 0, 0>>),
     PC_W2Employee("hana", 3500, "HEAD_OF_HOUSEHOLD", 1, 50, <<15000, 0, 20000, 5000>>),
     PC_W2Employee("max", 200000, "SINGLE", 0, 0, <<0, 0, 0, 0>>),
     PC_Contractor("john", 7500),
     PC_Employee("temp")}

Ids == {e.id : e \in Staff}
EmployeeOf(id) == CHOOSE e \in Staff : e.id = id

\* the hours a caller may pass, in half hours (-1: half an hour less than none)
HoursSet == {-1, 0, 80, 100}

EmptyYtd == [i \in {} |-> 0]
NoRows == [i \in {} |-> 0]
NoThreads == [t \in {} |-> 0]
NoCall == [op |-> "none"]
NoCharges == [i \in {} |-> 0]

-----------------------------------------------------------------------------
(* PayrollSystem (enhanced_payroll.py) *)

\* what process_payroll returns or raises, before the YTD update of line 310
process_payroll_result(employee_id, hours_worked) ==
    IF employee_id \notin employees THEN Raised("PayrollError")
    ELSE LET employee == EmployeeOf(employee_id)
             ytd == IF employee_id \in DOMAIN ytd_earnings
                    THEN ytd_earnings[employee_id] ELSE 0
         IN  IF employee.kind = "W2Employee"
             THEN PayrollCalculator_process_w2_payroll(employee, hours_worked, ytd)
             ELSE IF employee.kind = "Contractor"
             THEN PayrollCalculator_process_1099_payroll(employee, hours_worked)
             ELSE Raised("PayrollError")

NothingCharged == [capped |-> QZero, surtax |-> QZero]

\* the wages of the period on which calculate_fica_taxes, as process_payroll calls
\* it, charges the Social Security tax and the Additional Medicare tax
wages_charged(employee_id, hours_worked) ==
    IF employee_id \notin employees \/ EmployeeOf(employee_id).kind # "W2Employee"
    THEN NothingCharged
    ELSE LET gross_pay == QRat(hours_worked * EmployeeOf(employee_id).pay_rate, 2)
             ytd == ytd_earnings[employee_id]
         IN  [capped |-> PayrollCalculator_ss_taxable_earnings(gross_pay, ytd),
              surtax |-> IF PayrollCalculator_above_threshold(gross_pay, ytd)
                         THEN PayrollCalculator_excess_wages(gross_pay, ytd)
                         ELSE QZero]

\* a slip of line 310: the update left out
ytd_after_without_update(employee_id, result) == ytd_earnings

\* a slip of line 310: the gross pay added twice
ytd_after_added_twice(employee_id, result) ==
    [ytd_earnings EXCEPT ![employee_id] = @ + result.gross_pay + result.gross_pay]

\* the YTD update of line 310
ytd_after(employee_id, result) ==
    [ytd_earnings EXCEPT ![employee_id] = @ + result.gross_pay]

add_employee(employee) ==
    /\ ncalls < MaxCalls
    /\ employees' = employees \cup {employee.id}
    /\ ytd_earnings' = [i \in DOMAIN ytd_earnings \cup {employee.id} |->
                           IF i = employee.id THEN 0 ELSE ytd_earnings[i]]
    /\ prev' = last
    /\ last' = [op |-> "add_employee", employee_id |-> employee.id,
                ytd_before |-> ytd_earnings]
    /\ ncalls' = ncalls + 1
    /\ charged' = [i \in DOMAIN charged \cup {employee.id} |->
                      IF i = employee.id THEN NothingCharged ELSE charged[i]]
    /\ UNCHANGED <<ytd_table, db_last, committed, ndb, calc_in, calc_out, th, commits>>

process_payroll(employee_id, hours_worked) ==
    LET result == process_payroll_result(employee_id, hours_worked)
        wages == wages_charged(employee_id, hours_worked)
    IN  /\ ncalls < MaxCalls
        /\ ytd_earnings' = IF result.ok THEN ytd_after(employee_id, result)
                           ELSE ytd_earnings
        /\ prev' = last
        /\ last' = [op |-> "process_payroll", employee_id |-> employee_id,
                    hours_worked |-> hours_worked, ytd_before |-> ytd_earnings,
                    result |-> result]
        /\ ncalls' = ncalls + 1
        /\ charged' = IF result.ok
                      THEN [charged EXCEPT ![employee_id] =
                               [capped |-> QAdd(@.capped, wages.capped),
                                surtax |-> QAdd(@.surtax, wages.surtax)]]
                      ELSE charged
        /\ UNCHANGED <<employees, ytd_table, db_last, committed, ndb, calc_in, calc_out, th, commits>>


Init ==
    /\ employees = {}
    /\ ytd_earnings = EmptyYtd
    /\ last = NoCall
    /\ prev = NoCall
    /\ ncalls = 0
    /\ ytd_table = NoRows
    /\ db_last = NoCall
    /\ committed = {}
    /\ ndb = 0
    /\ calc_in = NoCall
    /\ calc_out = NoCall
    /\ th = NoThreads
    /\ commits = <<>>
    /\ charged = NoCharges

Next ==
    \/ \E employee \in Staff : add_employee(employee)
    \/ \E employee_id \in Ids, hours_worked \in HoursSet :
           process_payroll(employee_id, hours_worked)

Spec == Init /\ [][Next]_vars

-----------------------------------------------------------------------------
(* DatabaseManager (payroll_system.py): the ytd_earnings table.            *)
(* employee_id is the PRIMARY KEY: the table holds one row an employee.    *)

Years == {2024, 2025}
LedgerIds == {"w_tess", "w_big"}

ZeroSnapshot ==
    [gross_earnings |-> 0, federal_tax_withheld |-> 0, social_security_tax |-> 0,
     medicare_tax_total |-> 0, state_tax_withheld |-> 0]

\* SELECT ... FROM ytd_earnings WHERE employee_id = ? AND year = ?
HasRow(table, employee_id, year) ==
    employee_id \in DOMAIN table /\ table[employee_id].year = year

\* get_ytd_earnings on a given content of the table
select_ytd(table, employee_id, year) ==
    IF HasRow(table, employee_id, year)
    THEN [gross_earnings |-> table[employee_id].gross_earnings,
          federal_tax_withheld |-> table[employee_id].federal_tax_withheld,
          social_security_tax |-> table[employee_id].social_security_tax,
          medicare_tax_total |-> table[employee_id].medicare_tax_total,
          state_tax_withheld |-> table[employee_id].state_tax_withheld]
    ELSE ZeroSnapshot

get_ytd_earnings(employee_id, year) == select_ytd(ytd_table, employee_id, year)

\* a slip of line 376: the Additional Medicare tax left out of medicare_tax_total
ytd_row_without_additional(table, employee_id, year, entry) ==
    LET old == select_ytd(table, employee_id, year)
    IN  [year |-> year,
         gross_earnings |-> old.gross_earnings + entry.gross_pay,
         federal_tax_withheld |-> old.federal_tax_withheld + entry.federal_tax,
         social_security_tax |-> old.social_security_tax + entry.social_security_tax,
         medicare_tax_total |-> old.medicare_tax_total + entry.medicare_tax,
         state_tax_withheld |-> old.state_tax_withheld + entry.state_tax]

\* the row INSERT OR REPLACE writes: each COALESCE((SELECT ...), 0) + ?
ytd_row(table, employee_id, year, entry) ==
    LET old == select_ytd(table, employee_id, year)
    IN  [year |-> year,
         gross_earnings |-> old.gross_earnings + entry.gross_pay,
         federal_tax_withheld |-> old.federal_tax_withheld + entry.federal_tax,
         social_security_tax |-> old.social_security_tax + entry.social_security_tax,
         medicare_tax_total |-> old.medicare_tax_total
                                + (entry.medicare_tax + entry.additional_medicare_tax),
         state_tax_withheld |-> old.state_tax_withheld + entry.state_tax]

\* the table after INSERT OR REPLACE: the row of the same employee_id is replaced
insert_or_replace(table, employee_id, row) ==
    [i \in DOMAIN table \cup {employee_id} |-> IF i = employee_id THEN row ELSE table[i]]

update_ytd_earnings(employee_id, year, entry) ==
    /\ ndb < MaxDbCalls
    /\ ytd_table' = insert_or_replace(ytd_table, employee_id,
                                      ytd_row(ytd_table, employee_id, year, entry))
    /\ committed' = committed \cup {<<employee_id, year>>}
    /\ db_last' = [op |-> "update_ytd_earnings", ok |-> TRUE, employee_id |-> employee_id,
                   year |-> year, entry |-> entry, table_before |-> ytd_table]
    /\ ndb' = ndb + 1
    /\ UNCHANGED <<employees, ytd_earnings, last, prev, ncalls, calc_in, calc_out, th, commits, charged>>

\* sqlite3.Error inside the with block: the statement is rolled back, DatabaseError raised
update_ytd_earnings_error(employee_id, year, entry) ==
    /\ ndb < MaxDbCalls
    /\ db_last' = [op |-> "update_ytd_earnings", ok |-> FALSE, employee_id |-> employee_id,
                   year |-> year, entry |-> entry, table_before |-> ytd_table]
    /\ ndb' = ndb + 1
    /\ UNCHANGED <<employees, ytd_earnings, last, prev, ncalls, ytd_table, committed,
                   calc_in, calc_out, th, commits, charged>>

\* a read, with the snapshot it returns
read_ytd_earnings(employee_id, year) ==
    /\ ndb < MaxDbCalls
    /\ db_last' = [op |-> "get_ytd_earnings", ok |-> TRUE, employee_id |-> employee_id,
                   year |-> year, snapshot |-> get_ytd_earnings(employee_id, year),
                   table_before |-> ytd_table]
    /\ ndb' = ndb + 1
    /\ UNCHANGED <<employees, ytd_earnings, last, prev, ncalls, ytd_table, committed,
                   calc_in, calc_out, th, commits, charged>>

\* the entries committed: those process_w2_payroll builds for the employee from the
\* snapshot read for the key
LedgerHours == {80, 100}
LedgerEntry(employee_id, year, hours_worked) ==
    process_w2_payroll(W2Of(employee_id), hours_worked, 0,
                       get_ytd_earnings(employee_id, year).gross_earnings)

NextLedger ==
    \/ \E employee_id \in LedgerIds, year \in Years, hours_worked \in LedgerHours :
           update_ytd_earnings(employee_id, year,
                               LedgerEntry(employee_id, year, hours_worked))
    \/ \E employee_id \in LedgerIds, year \in Years, hours_worked \in LedgerHours :
           update_ytd_earnings_error(employee_id, year,
                                     LedgerEntry(employee_id, year, hours_worked))
    \/ \E employee_id \in LedgerIds, year \in Years :
           read_ytd_earnings(employee_id, year)

SpecLedger == Init /\ [][NextLedger]_vars

-----------------------------------------------------------------------------
(* The calculator functions applied to arguments drawn from bounded sets *)

WageBase == Cents(SOCIAL_SECURITY_WAGE_BASE)
Threshold == Cents(ADDITIONAL_MEDICARE_THRESHOLD)

\* gross pays and prior year-to-date totals in cents, around the cap and the threshold
GrossSet == {0, 250, 50000, 120000, 125000, 500000, 8430000}
YtdSet ==
    {0, WageBase - 120000, WageBase - 50000, WageBase - 1, WageBase, WageBase + 100000,
     Threshold - 500000, Threshold - 300000, Threshold, Threshold + 1}

CalcHours == {-1, 0, 1, 20, 80, 100}
CalcOvertime == {-1, 0, 1, 20}

\* the W2Employee objects handed to PayrollCalculator
CalcStaff ==
    {e \in Staff : e.kind = "W2Employee"}
    \cup {PC_W2Employee("pat", 2501, "SINGLE", 0, 0, <<0, 0, 0, 0>>),
          PC_W2Employee("penny", 2, "SINGLE", 0, 0, <<0, 0, 0, 0>>),
          PC_W2Employee("jane", 3500, "SINGLE", 1, 50, <<15000, 0, 20000, 5000>>)}

\* bracket tables handed to _calculate_tax_from_brackets: the federal tables, a
\* small table, and two tables whose limits do not increase
BracketTables ==
    {FEDERAL_TAX_BRACKETS[f] : f \in FilingStatus}
    \cup {<<Br(100, 10), Br(300, 20), BrInf(30)>>,
          <<Br(300, 10), Br(100, 20), BrInf(30)>>,
          <<Br(100, 10), Br(100, 20), BrInf(30)>>}

\* incomes handed to _calculate_tax_from_brackets, in cents
IncomeSet ==
    {-100000, -1, 0, 1, 5000, 10000, 10001, 20000, 30000, 30001, 40000,
     1160000, 1160001, 5000000, 10052500, 25000000, 70000000, 100000000}

\* the employees and hours handed to calculate_gross_pay (the function itself
\* checks neither)
GrossPayStaff ==
    W2Staff \cup {W2Employee("w_quick", 2500, 0, FALSE, "BI_WEEKLY", "SINGLE", 0, 0,
                              "TEXAS", <<>>, <<>>, <<FALSE, FALSE>>)}
GrossPayHours == {0, 1, 20, 80}

\* per-period taxable incomes handed to the withholding calculators, in cents
TaxableSet == {0, 50000, 100000, 125050, 435000, 1000000, 8300000}

CalcInputs ==
    [fn : {"calculate_fica_taxes"}, gross_pay : GrossSet, ytd : YtdSet]
    \cup [fn : {"calculate_gross_pay"}, employee : GrossPayStaff,
          hours_worked : GrossPayHours, overtime_hours : GrossPayHours]
    \cup [fn : {"calculate_state_tax"}, taxable_income : TaxableSet,
          state : DOMAIN State, filing_status : {"SINGLE", "MARRIED_JOINTLY"},
          pay_frequency : DOMAIN PayFrequency, is_exempt : BOOLEAN]
    \cup [fn : {"calculate_federal_withholding"}, taxable_income : TaxableSet,
          filing_status : FilingStatus, allowances : {0, 2},
          pay_frequency : DOMAIN PayFrequency, additional_withholding : {0, 1000},
          is_exempt : BOOLEAN]
    \cup [fn : {"_calculate_tax_from_brackets"}, income : IncomeSet,
          brackets : BracketTables]
    \cup [fn : {"PayrollCalculator.calculate_fica_taxes"}, gross_pay : GrossSet, ytd : YtdSet]
    \cup [fn : {"process_w2_payroll"}, employee : W2Staff, hours_worked : CalcHours,
          overtime_hours : CalcOvertime, ytd : YtdSet]
    \cup [fn : {"PayrollCalculator.process_w2_payroll"}, employee : CalcStaff,
          hours_worked : CalcHours, ytd : YtdSet]

InitCalc ==
    /\ employees = {}
    /\ ytd_earnings = EmptyYtd
    /\ last = NoCall
    /\ prev = NoCall
    /\ ncalls = 0
    /\ ytd_table = NoRows
    /\ db_last = NoCall
    /\ committed = {}
    /\ ndb = 0
    /\ calc_in \in CalcInputs
    /\ calc_out = NoCall
    /\ th = NoThreads
    /\ commits = <<>>
    /\ charged = NoCharges

Returned(value) == [op |-> "returned", value |-> value]

apply_calculate_fica_taxes ==
    /\ calc_out = NoCall
    /\ calc_in.fn = "calculate_fica_taxes"
    /\ calc_out' = Returned(calculate_fica_taxes(calc_in.gross_pay, calc_in.ytd))
    /\ UNCHANGED <<employees, ytd_earnings, last, prev, ncalls, ytd_table, db_last,
                   committed, ndb, calc_in, th, commits, charged>>

apply_PayrollCalculator_calculate_fica_taxes ==
    /\ calc_out = NoCall
    /\ calc_in.fn = "PayrollCalculator.calculate_fica_taxes"
    /\ calc_out' = Returned(PayrollCalculator_calculate_fica_taxes(
                                QInt(calc_in.gross_pay), calc_in.ytd))
    /\ UNCHANGED <<employees, ytd_earnings, last, prev, ncalls, ytd_table, db_last,
                   committed, ndb, calc_in, th, commits, charged>>

apply_process_w2_payroll ==
    /\ calc_out = NoCall
    /\ calc_in.fn = "process_w2_payroll"
    /\ calc_out' = Returned(process_w2_payroll(calc_in.employee, calc_in.hours_worked,
                                               calc_in.overtime_hours, calc_in.ytd))
    /\ UNCHANGED <<employees, ytd_earnings, last, prev, ncalls, ytd_table, db_last,
                   committed, ndb, calc_in, th, commits, charged>>

apply_PayrollCalculator_process_w2_payroll ==
    /\ calc_out = NoCall
    /\ calc_in.fn = "PayrollCalculator.process_w2_payroll"
    /\ calc_out' = Returned(PayrollCalculator_process_w2_payroll(
                                calc_in.employee, calc_in.hours_worked, calc_in.ytd))
    /\ UNCHANGED <<employees, ytd_earnings, last, prev, ncalls, ytd_table, db_last,
                   committed, ndb, calc_in, th, commits, charged>>

\* _calculate_tax_from_brackets validates nothing and raises nothing: it returns
\* a tax for every income and table
apply_calculate_tax_from_brackets ==
    /\ calc_out = NoCall
    /\ calc_in.fn = "_calculate_tax_from_brackets"
    /\ calc_out' = Returned(
           [ok |-> TRUE,
            tax |-> _calculate_tax_from_brackets(QInt(calc_in.income), calc_in.brackets),
            visited |-> bracket_loop(calc_in.brackets, 1, QZero,
                                     QInt(calc_in.income), 0).visited])
    /\ UNCHANGED <<employees, ytd_earnings, last, prev, ncalls, ytd_table, db_last,
                   committed, ndb, calc_in, th, commits, charged>>

apply_calculate_federal_withholding ==
    /\ calc_out = NoCall
    /\ calc_in.fn = "calculate_federal_withholding"
    /\ calc_out' = Returned(calculate_federal_withholding(
           calc_in.taxable_income, calc_in.filing_status, calc_in.allowances,
           PayFrequency[calc_in.pay_frequency], calc_in.additional_withholding,
           calc_in.is_exempt))
    /\ UNCHANGED <<employees, ytd_earnings, last, prev, ncalls, ytd_table, db_last,
                   committed, ndb, calc_in, th, commits, charged>>

apply_calculate_state_tax ==
    /\ calc_out = NoCall
    /\ calc_in.fn = "calculate_state_tax"
    /\ calc_out' = Returned(calculate_state_tax(
           calc_in.taxable_income, calc_in.state, calc_in.filing_status,
           PayFrequency[calc_in.pay_frequency], calc_in.is_exempt))
    /\ UNCHANGED <<employees, ytd_earnings, last, prev, ncalls, ytd_table, db_last,
                   committed, ndb, calc_in, th, commits, charged>>

apply_calculate_gross_pay ==
    /\ calc_out = NoCall
    /\ calc_in.fn = "calculate_gross_pay"
    /\ calc_out' = Returned(calculate_gross_pay(calc_in.employee, calc_in.hours_worked,
                                                calc_in.overtime_hours))
    /\ UNCHANGED <<employees, ytd_earnings, last, prev, ncalls, ytd_table, db_last,
                   committed, ndb, calc_in, th, commits, charged>>

NextCalc ==
    \/ apply_calculate_fica_taxes
    \/ apply_calculate_gross_pay
    \/ apply_calculate_state_tax
    \/ apply_calculate_federal_withholding
    \/ apply_calculate_tax_from_brackets
    \/ apply_PayrollCalculator_calculate_fica_taxes
    \/ apply_process_w2_payroll
    \/ apply_PayrollCalculator_process_w2_payroll

SpecCalc == InitCalc /\ [][NextCalc]_vars

-----------------------------------------------------------------------------
(* Two callers of PayrollSystem.process_payroll at once.  The class holds  *)
(* no lock: each caller runs the lines of process_payroll one after the    *)
(* other, and the other caller may run between any two of them.            *)

Threads == {1, 2}
ConcHours == {80, 100}
Idle == [pc |-> "idle"]

InitConc ==
    /\ employees = Ids \ {"temp"}
    /\ ytd_earnings = [i \in Ids \ {"temp"} |-> 0]
    /\ last = NoCall
    /\ prev = NoCall
    /\ ncalls = 0
    /\ ytd_table = NoRows
    /\ db_last = NoCall
    /\ committed = {}
    /\ ndb = 0
    /\ calc_in = NoCall
    /\ calc_out = NoCall
    /\ th = [t \in Threads |-> Idle]
    /\ commits = <<>>
    /\ charged = NoCharges

ConcFrame == UNCHANGED <<employees, last, prev, ncalls, ytd_table, db_last, committed,
                         ndb, calc_in, calc_out, charged>>

\* the caller enters process_payroll(employee_id, hours_worked)
t_call(t, employee_id, hours_worked) ==
    /\ th[t].pc = "idle"
    /\ th' = [th EXCEPT ![t] = [pc |-> "lookup", employee_id |-> employee_id,
                                hours_worked |-> hours_worked]]
    /\ UNCHANGED <<ytd_earnings, commits>>
    /\ ConcFrame

\* lines 296-298: employee = self.get_employee(employee_id), or PayrollError
t_lookup(t) ==
    /\ th[t].pc = "lookup"
    /\ th' = [th EXCEPT ![t] =
                 [pc |-> IF th[t].employee_id \in employees THEN "read" ELSE "raised",
                  employee_id |-> th[t].employee_id,
                  hours_worked |-> th[t].hours_worked]]
    /\ UNCHANGED <<ytd_earnings, commits>>
    /\ ConcFrame

\* line 300: ytd = self.ytd_earnings.get(employee_id, 0.0)
t_read(t) ==
    /\ th[t].pc = "read"
    /\ th' = [th EXCEPT ![t] =
                 [pc |-> "compute", employee_id |-> th[t].employee_id,
                  hours_worked |-> th[t].hours_worked,
                  ytd |-> IF th[t].employee_id \in DOMAIN ytd_earnings
                          THEN ytd_earnings[th[t].employee_id] ELSE 0]]
    /\ UNCHANGED <<ytd_earnings, commits>>
    /\ ConcFrame

\* lines 302-307: the calculator, with the ytd read at line 300
t_result(t) ==
    LET employee == EmployeeOf(th[t].employee_id)
    IN  IF employee.kind = "W2Employee"
        THEN PayrollCalculator_process_w2_payroll(employee, th[t].hours_worked, th[t].ytd)
        ELSE IF employee.kind = "Contractor"
        THEN PayrollCalculator_process_1099_payroll(employee, th[t].hours_worked)
        ELSE Raised("PayrollError")

t_compute(t) ==
    /\ th[t].pc = "compute"
    /\ th' = [th EXCEPT ![t] =
                 [pc |-> IF t_result(t).ok THEN "load" ELSE "raised",
                  employee_id |-> th[t].employee_id,
                  hours_worked |-> th[t].hours_worked,
                  ytd |-> th[t].ytd,
                  result |-> t_result(t)]]
    /\ UNCHANGED <<ytd_earnings, commits>>
    /\ ConcFrame

\* line 310, self.ytd_earnings[employee_id] += result.gross_pay: the read of the item
t_load(t) ==
    /\ th[t].pc = "load"
    /\ th' = [th EXCEPT ![t] =
                 [pc |-> "store", employee_id |-> th[t].employee_id,
                  hours_worked |-> th[t].hours_worked, ytd |-> th[t].ytd,
                  result |-> th[t].result,
                  loaded |-> ytd_earnings[th[t].employee_id]]]
    /\ UNCHANGED <<ytd_earnings, commits>>
    /\ ConcFrame

\* line 310: the store of the sum
t_store(t) ==
    /\ th[t].pc = "store"
    /\ ytd_earnings' = [ytd_earnings EXCEPT
                           ![th[t].employee_id] = th[t].loaded + th[t].result.gross_pay]
    /\ th' = [th EXCEPT ![t] =
                 [pc |-> "done", employee_id |-> th[t].employee_id,
                  hours_worked |-> th[t].hours_worked, ytd |-> th[t].ytd,
                  result |-> th[t].result, loaded |-> th[t].loaded]]
    /\ commits' = Append(commits, t)
    /\ ConcFrame

NextConc ==
    \/ \E t \in Threads, employee_id \in Ids, hours_worked \in ConcHours :
           t_call(t, employee_id, hours_worked)
    \/ \E t \in Threads : t_lookup(t)
    \/ \E t \in Threads : t_read(t)
    \/ \E t \in Threads : t_compute(t)
    \/ \E t \in Threads : t_load(t)
    \/ \E t \in Threads : t_store(t)

SpecConc == InitConc /\ [][NextConc]_vars

-----------------------------------------------------------------------------
(* Properties of the calculators (checked under SpecCalc) *)

Abs(x) == IF x < 0 THEN -x ELSE x

ReturnedBy(fn) == calc_out.op = "returned" /\ calc_in.fn = fn

\* a pay result that carries no post_tax_deductions field counts none
PostTaxOf(r) == IF "post_tax_deductions" \in DOMAIN r THEN r.post_tax_deductions ELSE 0

ItemizedSum(r) ==
    r.pre_tax_deductions + r.federal_tax + r.social_security_tax + r.medicare_tax
    + r.additional_medicare_tax + r.state_tax + PostTaxOf(r)

\* t cents is amount * rate to the nearest cent; amount counted in 1/unit cents
IsCentRounded(t, amount, unit, rate) ==
    Abs(t * (unit * rate.den) - amount * rate.num) <= (unit * rate.den) \div 2

\* the wages below the cap, by cases
WagesBelowCap(gross_pay, ytd, cap) ==
    IF ytd >= cap THEN 0
    ELSE IF ytd + gross_pay <= cap THEN gross_pay
    ELSE cap - ytd

C1_EnhancedCalculatorKeepsIdentity ==
    (ReturnedBy("process_w2_payroll") /\ calc_out.value.ok)
    => calc_out.value.net_pay = calc_out.value.gross_pay - ItemizedSum(calc_out.value)

C3_CappedTaxZeroAboveCapPartialInside ==
    ReturnedBy("calculate_fica_taxes") =>
        /\ calc_in.ytd >= WageBase => calc_out.value[1] = 0
        /\ (/\ 0 < ss_taxable_earnings(calc_in.gross_pay, calc_in.ytd)
            /\ ss_taxable_earnings(calc_in.gross_pay, calc_in.ytd) < calc_in.gross_pay)
           <=> (calc_in.ytd < WageBase /\ WageBase < calc_in.ytd + calc_in.gross_pay)
        /\ IsCentRounded(calc_out.value[1],
                         ss_taxable_earnings(calc_in.gross_pay, calc_in.ytd),
                         1, SOCIAL_SECURITY_RATE)

C3_Witness ==
    /\ ReturnedBy("calculate_fica_taxes")
    /\ calc_in.ytd < WageBase
    /\ WageBase < calc_in.ytd + calc_in.gross_pay
    /\ 0 < calc_out.value[1]
    /\ calc_out.value[1] < calculate_fica_taxes(calc_in.gross_pay, 0)[1]

\* C4: the surtax (Additional Medicare) of a period is 0 whenever
\* priorYTD + grossPay does not exceed the threshold; in the period in which the
\* cumulative pay crosses the threshold (priorYTD <= threshold < priorYTD + grossPay)
\* it is the surtax rate times (priorYTD + grossPay - threshold), to the nearest
\* cent; prior YTD 3000 below the threshold and gross 5000 gives the surtax on 2000
\* (18.00).
C4_SurtaxOnExcessOnly ==
    ReturnedBy("calculate_fica_taxes") =>
        /\ calc_in.ytd + calc_in.gross_pay <= Threshold => calc_out.value[3] = 0
        /\ (calc_in.ytd <= Threshold /\ Threshold < calc_in.ytd + calc_in.gross_pay) =>
              IsCentRounded(calc_out.value[3],
                            calc_in.ytd + calc_in.gross_pay - Threshold,
                            1, ADDITIONAL_MEDICARE_RATE)
        /\ (calc_in.gross_pay = 500000 /\ calc_in.ytd = Threshold - 300000)
              => calc_out.value[3] = 1800

C4_Witness ==
    /\ ReturnedBy("calculate_fica_taxes")
    /\ calc_in.gross_pay = 500000
    /\ calc_in.ytd = Threshold - 300000
    /\ calc_out.value[3] = 1800

-----------------------------------------------------------------------------
(* Properties of PayrollSystem (checked under Spec) *)

Processed(call) == call.op = "process_payroll" /\ call.result.ok

\* the latest two calls are successful process_payroll calls for the same W-2
\* employee with the same hours
SameCallTwice ==
    /\ prev.op = "process_payroll"
    /\ last.op = "process_payroll"
    /\ prev.result.ok
    /\ last.result.ok
    /\ prev.employee_id = last.employee_id
    /\ prev.hours_worked = last.hours_worked
    /\ EmployeeOf(last.employee_id).kind = "W2Employee"

ContributionTaxes(r) ==
    <<r.social_security_tax, r.medicare_tax, r.additional_medicare_tax>>

C9_YtdNeverDecreases ==
    last.op # "none" =>
        \A i \in DOMAIN last.ytd_before :
            i \in DOMAIN ytd_earnings /\ ytd_earnings[i] >= last.ytd_before[i]

\* C10: a process_payroll call that fails (unknown id, negative hours, unknown
\* employee type, calculator error) leaves every worker's YTD as it was; a call that
\* succeeds changes the YTD of that worker only, by the gross pay of its result,
\* added once.
C10_FailedCallKeepsYtdSuccessAddsGrossOnce ==
    last.op = "process_payroll" =>
        /\ last.employee_id \notin employees => ~last.result.ok
        /\ last.hours_worked < 0 => ~last.result.ok
        /\ (last.employee_id \in employees
            /\ EmployeeOf(last.employee_id).kind = "Employee") => ~last.result.ok
        /\ (last.employee_id \in employees
            /\ EmployeeOf(last.employee_id).kind = "W2Employee"
            /\ EmployeeOf(last.employee_id).filing_status \notin PayrollCalculator_bracket_keys)
                => ~last.result.ok
        /\ ~last.result.ok => ytd_earnings = last.ytd_before
        /\ last.result.ok =>
              /\ DOMAIN ytd_earnings = DOMAIN last.ytd_before
              /\ \A i \in DOMAIN ytd_earnings :
                    ytd_earnings[i] = last.ytd_before[i]
                        + (IF i = last.employee_id THEN last.result.gross_pay ELSE 0)

\* a successful call that raised the YTD, then a failed one that left it alone
C10_Witness ==
    /\ prev.op = "process_payroll"
    /\ last.op = "process_payroll"
    /\ prev.result.ok
    /\ prev.result.gross_pay > 0
    /\ ~last.result.ok
    /\ last.employee_id = prev.employee_id
    /\ ytd_earnings[prev.employee_id] = prev.ytd_before[prev.employee_id] + prev.result.gross_pay

-----------------------------------------------------------------------------
(* Properties of concurrent callers (checked under SpecConc) *)

BothCommitted ==
    /\ \A t \in Threads : th[t].pc = "done"
    /\ th[1].employee_id = th[2].employee_id

\* C6: two calls for the same worker do not interleave: once both have committed,
\* the YTD gross is the initial YTD (0) plus both gross pays, and the call that
\* committed second read a YTD that already held the gross pay of the first.
C6_NoLostUpdateNoStaleRead ==
    BothCommitted =>
        /\ ytd_earnings[th[1].employee_id]
              = th[1].result.gross_pay + th[2].result.gross_pay
        /\ th[commits[2]].ytd = th[commits[1]].result.gross_pay

-----------------------------------------------------------------------------
(* Properties of the ledger (checked under SpecLedger) *)

Committed == db_last.op = "update_ytd_earnings" /\ db_last.ok

LedgerKeys == LedgerIds \X Years

\* C7: a commit for (workerId, year) changes the snapshot of that key only: every
\* other worker, and the same worker in every other year, reads as before.
C7_CommitChangesOnlyItsKey ==
    Committed =>
        \A k \in LedgerKeys :
            k # <<db_last.employee_id, db_last.year>> =>
                select_ytd(ytd_table, k[1], k[2])
                    = select_ytd(db_last.table_before, k[1], k[2])

\* C8: a read of a key that was never committed returns a snapshot of zeros; after
\* a commit for a key a read of the key returns the snapshot read before the commit
\* plus the delta in all five fields (gross, federal, capped, uncapped and surtax
\* together, state); a commit that fails applies none of them.
C8_ZeroWhenAbsentAndAllFieldsCommitted ==
    /\ \A k \in LedgerKeys \ committed : get_ytd_earnings(k[1], k[2]) = ZeroSnapshot
    /\ (db_last.op = "get_ytd_earnings"
        /\ <<db_last.employee_id, db_last.year>> \notin committed)
          => db_last.snapshot = ZeroSnapshot
    /\ Committed =>
          LET before == select_ytd(db_last.table_before, db_last.employee_id, db_last.year)
              after == get_ytd_earnings(db_last.employee_id, db_last.year)
              delta == db_last.entry
          IN  /\ after.gross_earnings = before.gross_earnings + delta.gross_pay
              /\ after.federal_tax_withheld = before.federal_tax_withheld + delta.federal_tax
              /\ after.social_security_tax
                    = before.social_security_tax + delta.social_security_tax
              /\ after.medicare_tax_total
                    = before.medicare_tax_total + delta.medicare_tax
                      + delta.additional_medicare_tax
              /\ after.state_tax_withheld = before.state_tax_withheld + delta.state_tax
    /\ (db_last.op = "update_ytd_earnings" /\ ~db_last.ok)
          => ytd_table = db_last.table_before

\* a second commit for a key that already held a snapshot, with a surtax in the delta
C8_Witness ==
    /\ Committed
    /\ select_ytd(db_last.table_before, db_last.employee_id, db_last.year).gross_earnings > 0
    /\ db_last.entry.additional_medicare_tax > 0
    /\ get_ytd_earnings(db_last.employee_id, db_last.year).gross_earnings
          > db_last.entry.gross_pay

-----------------------------------------------------------------------------
(* Properties of the calculators, continued (checked under SpecCalc) *)

\* C11: process_w2_payroll fails, and returns no pay result, for a salaried worker
\* given non-zero regular or overtime hours, and for every worker given negative
\* regular or overtime hours.
C11_HoursOfSalariedAndNegativeHoursRejected ==
    /\ ReturnedBy("process_w2_payroll") =>
          /\ (calc_in.employee.is_salaried
              /\ (calc_in.hours_worked # 0 \/ calc_in.overtime_hours # 0))
                => ~calc_out.value.ok
          /\ (calc_in.hours_worked < 0 \/ calc_in.overtime_hours < 0)
                => ~calc_out.value.ok
    /\ ReturnedBy("PayrollCalculator.process_w2_payroll") =>
          (calc_in.hours_worked < 0 => ~calc_out.value.ok)

\* C11, the part the code keeps: negative regular or overtime hours raise PayrollError
\* for every worker, salaried or hourly.
C11_NegativeHoursRejected ==
    /\ ReturnedBy("process_w2_payroll") =>
          ((calc_in.hours_worked < 0 \/ calc_in.overtime_hours < 0)
              <=> ~calc_out.value.ok)
    /\ ReturnedBy("PayrollCalculator.process_w2_payroll") =>
          (calc_in.hours_worked < 0 => ~calc_out.value.ok)

\* limits strictly increasing from above 0, the last one unbounded, no rate negative
WellFormed(brackets) ==
    /\ Len(brackets) >= 1
    /\ brackets[Len(brackets)].inf
    /\ \A i \in 1..(Len(brackets) - 1) :
          /\ ~brackets[i].inf
          /\ brackets[i].limit > (IF i = 1 THEN 0 ELSE brackets[i - 1].limit)
    /\ \A i \in 1..Len(brackets) : brackets[i].rate >= 0

\* the part of income (cents) lying in (previousLimit, upperLimit] of bracket i
PartInBracket(income, brackets, i) ==
    LET lower == IF i = 1 THEN 0 ELSE Cents(brackets[i - 1].limit)
        upper == IF brackets[i].inf THEN income ELSE Min(income, Cents(brackets[i].limit))
    IN  Max(0, upper - lower)

\* the sum over brackets i..Len of rate * part of income in the bracket
RECURSIVE BracketSum(_, _, _)
BracketSum(income, brackets, i) ==
    IF i > Len(brackets) THEN QZero
    ELSE QAdd(QScale(QInt(PartInBracket(income, brackets, i)), brackets[i].rate, 100),
              BracketSum(income, brackets, i + 1))

\* the first bracket whose upper limit income does not exceed
BracketOf(income, brackets) ==
    CHOOSE i \in 1..Len(brackets) :
        /\ brackets[i].inf \/ income <= Cents(brackets[i].limit)
        /\ \A j \in 1..(i - 1) : income > Cents(brackets[j].limit)

BracketCall == ReturnedBy("_calculate_tax_from_brackets")

\* C12: for a non-negative amount and a table with strictly increasing limits and an
\* unbounded last limit, _calculate_tax_from_brackets returns the sum over the
\* brackets of rate * (part of the amount in (previousLimit, upperLimit]), the part
\* above the last finite limit at the final rate, and the loop visits no bracket
\* after the one in which the remaining amount reaches 0.
C12_TaxIsSumOverBrackets ==
    (BracketCall /\ calc_in.income >= 0 /\ WellFormed(calc_in.brackets)) =>
        /\ calc_out.value.tax = BracketSum(calc_in.income, calc_in.brackets, 1)
        /\ calc_out.value.visited = BracketOf(calc_in.income, calc_in.brackets)

\* an amount above the last finite limit of a federal table: all seven brackets taxed
C12_Witness ==
    /\ BracketCall
    /\ WellFormed(calc_in.brackets)
    /\ Len(calc_in.brackets) = 7
    /\ calc_in.income > Cents(calc_in.brackets[6].limit)
    /\ calc_out.value.visited = 7
    /\ calc_out.value.tax = BracketSum(calc_in.income, calc_in.brackets, 1)

C12_WitnessShortCircuit ==
    /\ BracketCall
    /\ WellFormed(calc_in.brackets)
    /\ calc_in.income = Cents(calc_in.brackets[1].limit)
    /\ calc_out.value.visited = 1

\* C13: the tax is monotonically non-decreasing in the amount: for every bracket
\* table (strictly increasing limits, the last unbounded) and all amounts a <= b,
\* the tax on a is at most the tax on b.
C13_TaxMonotoneInAmount ==
    (BracketCall /\ WellFormed(calc_in.brackets)) =>
        \A b \in IncomeSet :
            calc_in.income <= b =>
                QLe(calc_out.value.tax,
                    _calculate_tax_from_brackets(QInt(b), calc_in.brackets))

\* an amount one cent above a limit, taxed across two brackets, with smaller amounts
\* taxed strictly less and larger ones strictly more
C13_Witness ==
    /\ BracketCall
    /\ WellFormed(calc_in.brackets)
    /\ calc_out.value.visited = 2
    /\ calc_in.income = Cents(calc_in.brackets[1].limit) + 1
    /\ \E a, b \in IncomeSet :
          /\ 0 < a /\ a < calc_in.income /\ calc_in.income < b
          /\ QLt(_calculate_tax_from_brackets(QInt(a), calc_in.brackets),
                 calc_out.value.tax)
          /\ QLt(calc_out.value.tax,
                 _calculate_tax_from_brackets(QInt(b), calc_in.brackets))

\* C14: given a negative amount, or a bracket table whose limits are not strictly
\* increasing, _calculate_tax_from_brackets fails (ConfigurationError) and returns
\* no tax value.
C14_MalformedInputRejected ==
    (BracketCall /\ (calc_in.income < 0 \/ ~WellFormed(calc_in.brackets)))
        => ~calc_out.value.ok

\* t cents is the exact amount q to the nearest cent (a tie either way)
IsNearestCent(t, q) ==
    \/ t = q.w /\ 2 * q.n <= FracDen
    \/ t = q.w + 1 /\ 2 * q.n >= FracDen

\* bracketTax(max(0, max(0, base * periods - standardDeduction) - allowances *
\* allowanceValue)) / periods + extra, as an exact amount
WithholdingFormula(base, filing_status, allowances, periods, extra) ==
    LET annual == Max(0, Max(0, base * periods - Cents(STANDARD_DEDUCTIONS[filing_status]))
                         - allowances * Cents(ALLOWANCE_VALUE))
    IN  QAdd(QOver(BracketSum(annual, FEDERAL_TAX_BRACKETS[filing_status], 1), periods),
             QInt(extra))

C15_WitnessExempt ==
    /\ ReturnedBy("calculate_federal_withholding")
    /\ calc_in.is_exempt
    /\ calc_in.additional_withholding > 0
    /\ calc_in.taxable_income > 0
    /\ calc_out.value = 0

\* the tiers a jurisdiction's rates form, rates in thousandths: the thresholds and
\* rates calculate_state_tax names for California, one unbounded tier elsewhere
StateTiers(state) ==
    IF state = "CALIFORNIA"
    THEN <<Br(20000, 10), Br(50000, 20), Br(100000, 40), BrInf(State[state].max_rate)>>
    ELSE <<BrInf(State[state].max_rate)>>

\* the sum over tiers i..Len of rate * part of income in the tier
RECURSIVE TierSum(_, _, _)
TierSum(income, tiers, i) ==
    IF i > Len(tiers) THEN QZero
    ELSE QAdd(QScale(QInt(PartInBracket(income, tiers, i)), tiers[i].rate, 1000),
              TierSum(income, tiers, i + 1))

\* annualize, subtract the floor clamped at 0, progressive tax over the tiers,
\* de-annualize: an exact amount
StatePipeline(base, state, periods) ==
    QOver(TierSum(Max(0, base * periods - Cents(State[state].standard_deduction)),
                  StateTiers(state), 1),
          periods)

\* C16: calculate_state_tax is the withholding pipeline over the jurisdiction's own
\* tiers and deduction floor: for every taxable base, state and pay frequency it
\* returns, to the cent, progressiveTax(max(0, base * periods - floor)) / periods,
\* each tier's rate applied only to the income inside that tier.
C16_StateTaxIsProgressivePipeline ==
    (ReturnedBy("calculate_state_tax") /\ ~calc_in.is_exempt) =>
        IsNearestCent(calc_out.value,
            StatePipeline(calc_in.taxable_income, calc_in.state,
                          PayFrequency[calc_in.pay_frequency]))

\* C16, the part the code keeps: in the states with one flat rate the pipeline and
\* calculate_state_tax agree.
C16_FlatStatesFollowPipeline ==
    (ReturnedBy("calculate_state_tax") /\ ~calc_in.is_exempt
     /\ calc_in.state # "CALIFORNIA") =>
        IsNearestCent(calc_out.value,
            StatePipeline(calc_in.taxable_income, calc_in.state,
                          PayFrequency[calc_in.pay_frequency]))

\* annualAmount / periodsPerYear for a salaried worker, regularHours * rate +
\* overtimeHours * rate * 1.5 for an hourly one (hours in half hours): an exact amount
GrossFormula(employee, hours_worked, overtime_hours) ==
    IF employee.is_salaried
    THEN QRat(employee.salary, PayFrequency[employee.pay_frequency])
    ELSE QRat(2 * hours_worked * employee.pay_rate
              + 3 * overtime_hours * employee.pay_rate, 4)

\* C17: gross pay is, for a salaried worker, annualAmount / periodsPerYear to the
\* cent whatever hours are supplied, and for an hourly worker regularHours * rate +
\* overtimeHours * rate * 1.5 to the cent; 40 hours at 25.00 give 1000.00.
\* PayrollCalculator's workers are hourly and have no overtime hours.
C17_GrossPayFormula ==
    /\ ReturnedBy("calculate_gross_pay") =>
          /\ IsNearestCent(calc_out.value,
                 GrossFormula(calc_in.employee, calc_in.hours_worked,
                              calc_in.overtime_hours))
          /\ calc_in.employee.is_salaried =>
                \A h, o \in GrossPayHours :
                    calculate_gross_pay(calc_in.employee, h, o) = calc_out.value
          /\ (/\ ~calc_in.employee.is_salaried
              /\ calc_in.employee.pay_rate = 2500
              /\ calc_in.hours_worked = 80
              /\ calc_in.overtime_hours = 0) => calc_out.value = 100000
    /\ (ReturnedBy("process_w2_payroll") /\ calc_out.value.ok) =>
          IsNearestCent(calc_out.value.gross_pay,
              GrossFormula(calc_in.employee, calc_in.hours_worked,
                           calc_in.overtime_hours))
    /\ (ReturnedBy("PayrollCalculator.process_w2_payroll") /\ calc_out.value.ok) =>
          /\ IsNearestCent(calc_out.value.gross_pay,
                 QRat(calc_in.hours_worked * calc_in.employee.pay_rate, 2))
          /\ (calc_in.employee.pay_rate = 2500 /\ calc_in.hours_worked = 80)
                => calc_out.value.gross_pay = 100000

\* an hourly worker with regular and overtime hours
C17_Witness ==
    /\ ReturnedBy("calculate_gross_pay")
    /\ ~calc_in.employee.is_salaried
    /\ calc_in.hours_worked = 80
    /\ calc_in.overtime_hours = 20
    /\ calc_in.employee.pay_rate = 2500
    /\ calc_out.value = 100000 + 37500

\* a salaried worker given hours
C17_WitnessSalaried ==
    /\ ReturnedBy("calculate_gross_pay")
    /\ calc_in.employee.is_salaried
    /\ calc_in.hours_worked > 0
    /\ calc_out.value = 500000

-----------------------------------------------------------------------------
(* Properties of PayrollSystem, continued (checked under Spec) *)

ContractorCall(call) ==
    /\ call.op = "process_payroll"
    /\ call.employee_id \in DOMAIN call.ytd_before
    /\ EmployeeOf(call.employee_id).kind = "Contractor"
    /\ call.hours_worked >= 0

\* C18: for a contractor and hours >= 0 the pay result has net_pay = gross_pay =
\* hours * rate to the cent, and every tax and deduction field 0, whatever the
\* worker's YTD is.
C18_ContractorPaidGrossUntaxed ==
    ContractorCall(last) =>
        /\ last.result.ok
        /\ IsNearestCent(last.result.gross_pay,
               QRat(last.hours_worked * EmployeeOf(last.employee_id).pay_rate, 2))
        /\ last.result.net_pay = last.result.gross_pay
        /\ last.result.pre_tax_deductions = 0
        /\ last.result.federal_tax = 0
        /\ last.result.social_security_tax = 0
        /\ last.result.medicare_tax = 0
        /\ last.result.additional_medicare_tax = 0
        /\ last.result.state_tax = 0
        /\ last.result.total_deductions = 0
        /\ (ContractorCall(prev) /\ prev.employee_id = last.employee_id
            /\ prev.hours_worked = last.hours_worked) => prev.result = last.result

\* the same contractor paid for the same hours at two different YTD totals
C18_Witness ==
    /\ ContractorCall(last)
    /\ ContractorCall(prev)
    /\ prev.employee_id = last.employee_id
    /\ prev.hours_worked = last.hours_worked
    /\ last.ytd_before[last.employee_id] > prev.ytd_before[prev.employee_id]
    /\ last.result.gross_pay > 0
    /\ last.result.net_pay = last.result.gross_pay
    /\ prev.result = last.result

-----------------------------------------------------------------------------
(* Properties of the calculators, continued (checked under SpecCalc) *)

W2Result ==
    /\ calc_out.op = "returned"
    /\ calc_in.fn \in {"process_w2_payroll", "PayrollCalculator.process_w2_payroll"}
    /\ calc_out.value.ok

\* C19 as stated: every W-2 pay result of process_w2_payroll with positive gross pay
\* has net_pay strictly less than gross_pay.
C19_NetPayBelowGross ==
    (W2Result /\ calc_out.value.gross_pay > 0)
        => calc_out.value.net_pay < calc_out.value.gross_pay

\* C19 as amended: every W-2 pay result (deductions and extra withholding not
\* negative) has net_pay at most gross_pay, and strictly less once gross_pay is at
\* least 1.00; a gross pay of a few cents, on which every tax rounds to 0, is paid
\* out whole.
C19_NetPayAtMostGross ==
    W2Result =>
        /\ calc_out.value.net_pay <= calc_out.value.gross_pay
        /\ calc_out.value.gross_pay >= 100
              => calc_out.value.net_pay < calc_out.value.gross_pay

\* a pay of exactly 1.00 with nothing but contribution taxes withheld
C19_Witness ==
    /\ W2Result
    /\ calc_out.value.gross_pay = 100
    /\ calc_out.value.federal_tax = 0
    /\ calc_out.value.state_tax = 0
    /\ calc_out.value.pre_tax_deductions = 0
    /\ calc_out.value.net_pay < 100
    /\ calc_out.value.net_pay > 0

\* 0.0145 in lowest terms
UncappedRate == [num |-> 29, den |-> 2000]

\* the wages above the surtax threshold, by cases
WagesAboveThreshold(gross_pay, ytd, threshold) ==
    IF ytd + gross_pay <= threshold THEN 0
    ELSE IF ytd >= threshold THEN gross_pay
    ELSE ytd + gross_pay - threshold

\* other pre-tax elections a worker might have made
PreTaxElections == {<<>>, <<10000>>, <<30000, 100000>>, <<200000>>}
PC_PreTaxElections == {<<0, 0, 0, 0>>, <<30000, 0, 100000, 0>>, <<15000, 0, 20000, 5000>>}

\* C20: in process_w2_payroll the taxable base is max(0, gross - preTaxTotal) and
\* feeds the federal withholding and the state tax; the capped tax, the uncapped tax
\* and the surtax are computed from the gross pay and the YTD gross before the
\* period, so that other pre-tax deductions leave all three unchanged.
C20_ContributionTaxesOnGrossPay ==
    /\ (ReturnedBy("process_w2_payroll") /\ calc_out.value.ok) =>
          LET r == calc_out.value
              e == calc_in.employee
          IN  /\ r.taxable_income = Max(0, r.gross_pay - r.pre_tax_deductions)
              /\ r.pre_tax_deductions = SumSeq(e.pre_tax_deductions)
              /\ r.state_tax = calculate_state_tax(r.taxable_income, e.state,
                     e.filing_status, PayFrequency[e.pay_frequency],
                     e.is_exempt_from_state)
              /\ IsCentRounded(r.social_security_tax,
                     WagesBelowCap(r.gross_pay, calc_in.ytd, WageBase),
                     1, SOCIAL_SECURITY_RATE)
              /\ IsCentRounded(r.medicare_tax, r.gross_pay, 1, UncappedRate)
              /\ IsCentRounded(r.additional_medicare_tax,
                     WagesAboveThreshold(r.gross_pay, calc_in.ytd, Threshold),
                     1, ADDITIONAL_MEDICARE_RATE)
              /\ \A d \in PreTaxElections :
                    ContributionTaxes(process_w2_payroll(
                        [e EXCEPT !.pre_tax_deductions = d], calc_in.hours_worked,
                        calc_in.overtime_hours, calc_in.ytd)) = ContributionTaxes(r)
    /\ (ReturnedBy("PayrollCalculator.process_w2_payroll") /\ calc_out.value.ok) =>
          LET r == calc_out.value
              e == calc_in.employee
              wages == calc_in.hours_worked * e.pay_rate
          IN  /\ wages % 2 = 0 =>
                    r.taxable_income = Max(0, r.gross_pay - r.pre_tax_deductions)
              /\ r.pre_tax_deductions = SumSeq(e.pre_tax_deductions)
              /\ IsCentRounded(r.social_security_tax,
                     WagesBelowCap(wages, 2 * calc_in.ytd, 2 * WageBase),
                     2, SOCIAL_SECURITY_RATE)
              /\ IsCentRounded(r.medicare_tax, wages, 2, UncappedRate)
              /\ IsCentRounded(r.additional_medicare_tax,
                     WagesAboveThreshold(wages, 2 * calc_in.ytd, 2 * Threshold),
                     2, ADDITIONAL_MEDICARE_RATE)
              /\ \A d \in PC_PreTaxElections :
                    ContributionTaxes(PayrollCalculator_process_w2_payroll(
                        [e EXCEPT !.pre_tax_deductions = d], calc_in.hours_worked,
                        calc_in.ytd)) = ContributionTaxes(r)

\* a worker whose pre-tax deductions lower the taxable base below the gross pay
C20_Witness ==
    /\ ReturnedBy("process_w2_payroll")
    /\ calc_out.value.ok
    /\ calc_out.value.pre_tax_deductions > 0
    /\ 0 < calc_out.value.taxable_income
    /\ calc_out.value.taxable_income < calc_out.value.gross_pay
    /\ calc_out.value.social_security_tax > 0
    /\ calc_out.value.additional_medicare_tax > 0

\* the exact amount q >= 0 to the nearest cent, half a cent going up
HalfUp(q) == IF 2 * q.n >= FracDen THEN q.w + 1 ELSE q.w

\* C21: every component of a W-2 pay result is rounded half-up to the cent where it
\* is produced: the gross pay, then each contribution tax computed from the rounded
\* gross pay (an amount exactly half a cent between two cents going up), and the net
\* pay is taken from the rounded components, none being left unrounded until the
\* result is put together.
C21_EachComponentRoundedHalfUp ==
    W2Result =>
        LET r == calc_out.value
        IN  /\ r.gross_pay =
                  HalfUp(IF calc_in.fn = "process_w2_payroll"
                         THEN GrossFormula(calc_in.employee, calc_in.hours_worked,
                                           calc_in.overtime_hours)
                         ELSE QRat(calc_in.hours_worked * calc_in.employee.pay_rate, 2))
            /\ r.social_security_tax =
                  HalfUp(QScale(QInt(WagesBelowCap(r.gross_pay, calc_in.ytd, WageBase)),
                                SOCIAL_SECURITY_RATE.num, SOCIAL_SECURITY_RATE.den))
            /\ r.medicare_tax =
                  HalfUp(QScale(QInt(r.gross_pay), UncappedRate.num, UncappedRate.den))
            /\ r.additional_medicare_tax =
                  HalfUp(QScale(QInt(WagesAboveThreshold(r.gross_pay, calc_in.ytd,
                                                         Threshold)),
                                ADDITIONAL_MEDICARE_RATE.num,
                                ADDITIONAL_MEDICARE_RATE.den))
            /\ r.net_pay = r.gross_pay - ItemizedSum(r)

-----------------------------------------------------------------------------
(* Properties of a worker's year (checked under Spec): a worker's YTD is 0 *)
(* when add_employee has run, and every successful process_payroll adds a  *)
(* period to it                                                            *)

W2Workers == {i \in employees : EmployeeOf(i).kind = "W2Employee"}

PaidPeriod(i) ==
    /\ last.op = "process_payroll"
    /\ last.employee_id = i
    /\ last.result.ok
    /\ last.result.gross_pay > 0

C23_WitnessBoundary ==
    \E i \in W2Workers :
        /\ PaidPeriod(i)
        /\ last.ytd_before[i] = Threshold
        /\ prev.op = "process_payroll" /\ prev.employee_id = i /\ prev.result.ok
        /\ prev.result.additional_medicare_tax = 0
        /\ charged[i].surtax = QInt(last.result.gross_pay)

-----------------------------------------------------------------------------
(* Pay periods whose pre-tax deductions exceed the gross pay (checked      *)
(* under SpecCalc)                                                         *)

\* a process_w2_payroll call of either calculator with hours that are not negative
\* for a worker whose pre-tax deduction total exceeds the period's gross pay
PreTaxExceedsGross ==
    /\ calc_out.op = "returned"
    /\ \/ /\ calc_in.fn = "process_w2_payroll"
          /\ calc_in.hours_worked >= 0
          /\ calc_in.overtime_hours >= 0
          /\ QLt(GrossFormula(calc_in.employee, calc_in.hours_worked,
                              calc_in.overtime_hours),
                 QInt(SumSeq(calc_in.employee.pre_tax_deductions)))
       \/ /\ calc_in.fn = "PayrollCalculator.process_w2_payroll"
          /\ calc_in.hours_worked >= 0
          /\ QLt(QRat(calc_in.hours_worked * calc_in.employee.pay_rate, 2),
                 QInt(SumSeq(calc_in.employee.pre_tax_deductions)))

\* C24: for a W-2 worker whose pre-tax deduction total exceeds the period's gross
\* pay (extra withholding and post-tax deductions not negative), process_w2_payroll
\* raises no error and returns taxable_income = 0 and a negative net_pay.
C24_NegativeNetPayIsReturned ==
    PreTaxExceedsGross =>
        /\ calc_out.value.ok
        /\ calc_out.value.taxable_income = 0
        /\ calc_out.value.net_pay < 0

\* the same where the worker's filing status has a federal bracket table
NegativeNetPayWhereBracketsExist ==
    (/\ PreTaxExceedsGross
     /\ calc_in.fn = "PayrollCalculator.process_w2_payroll"
            => calc_in.employee.filing_status \in PayrollCalculator_bracket_keys)
        => /\ calc_out.value.ok
           /\ calc_out.value.taxable_income = 0
           /\ calc_out.value.net_pay < 0

\* a period of positive gross pay below the pre-tax deductions, paid with a
\* negative net pay
NegativeNetPayReturned ==
    /\ PreTaxExceedsGross
    /\ calc_out.value.ok
    /\ calc_out.value.gross_pay > 0
    /\ calc_out.value.taxable_income = 0
    /\ calc_out.value.net_pay < 0

====
